---- MODULE Spec2Model ----
(***************************************************************************)
(* Model of the crypto price streamer backend:                             *)
(*   backend/src/price-streamer.ts  (PriceStreamer: the session supervisor) *)
(*   backend/src/price-service.ts   (priceServiceImpl: the RPC facade and   *)
(*                                   the emitter -> async-iterator bridge)  *)
(*                                                                         *)
(* Node runs the program on one thread: an async function runs without     *)
(* interruption from one await to the next.  Every action below is one     *)
(* such run-to-next-await segment of one async call; the I/O an await      *)
(* waits for (Playwright launching, navigating, closing) resolves in a     *)
(* later step, with its outcome (resolve or reject) chosen there.          *)
(*                                                                         *)
(* Playwright is the environment: a tab, the window (context) or the whole  *)
(* browser can go away at any time, and Playwright then delivers the       *)
(* 'close' / 'disconnected' events to the handlers the program installed.  *)
(***************************************************************************)
EXTENDS Integers, Sequences, FiniteSets, TLC

(***************************************************************************)
(* Bounds of the model.                                                    *)
(***************************************************************************)
\* concurrent RPC calls (addTicker / removeTicker / start) in flight
NSlots == 2
\* persistent pages (tabs) in existence at once; newPage rejects beyond it
MaxPages == 2
\* PageState objects reachable at once (from the registry or from a call)
MaxStates == 2
\* retryOpen loops running at once
NHeals == 1
\* price events emitted while subscriptions are followed
MaxEvents == 2
\* price events emitted while the supervisor's calls are followed
SupEvents == 1
\* largest numeric reading a page reports
MaxPrice == 1
\* concurrent streamPrices subscriptions
NSubs == 2
\* container-level recovery handlers (relaunchAndRestore,
\* recreateContextAndRestore) running at once
NRecs == 2

(***************************************************************************)
(* Strings are sequences of one-character strings, so that trim,           *)
(* toUpperCase and the regular expressions are computed, not assumed.      *)
(***************************************************************************)
Lower == <<"a","b","c","d","e","f","g","h","i","j","k","l","m",
           "n","o","p","q","r","s","t","u","v","w","x","y","z">>
Upper == <<"A","B","C","D","E","F","G","H","I","J","K","L","M",
           "N","O","P","Q","R","S","T","U","V","W","X","Y","Z">>
Digits == {"0","1","2","3","4","5","6","7","8","9"}

Range(f) == { f[i] : i \in DOMAIN f }

\* String.prototype.toUpperCase on one character
upperChar(ch) ==
    IF ch \in Range(Lower)
    THEN Upper[CHOOSE i \in DOMAIN Lower : Lower[i] = ch]
    ELSE ch

toUpperCase(s) == [i \in 1..Len(s) |-> upperChar(s[i])]

\* String.prototype.trim: drop leading and trailing white space
RECURSIVE trimStart(_)
trimStart(s) ==
    IF s # <<>> /\ Head(s) = " " THEN trimStart(Tail(s)) ELSE s

RECURSIVE trimEnd(_)
trimEnd(s) ==
    IF s # <<>> /\ s[Len(s)] = " " THEN trimEnd(SubSeq(s, 1, Len(s) - 1)) ELSE s

trim(s) == trimEnd(trimStart(s))

endsWith(s, suf) ==
    /\ Len(s) >= Len(suf)
    /\ SubSeq(s, Len(s) - Len(suf) + 1, Len(s)) = suf

USDT == <<"U","S","D","T">>
USD == <<"U","S","D">>

\* [A-Z0-9] under the i flag
isAlnum(ch) == ch \in Range(Upper) \cup Range(Lower) \cup Digits

\* const BASIC_TICKER_RE = /^[A-Z0-9]{3,15}(USDT|USD)?$/i  -- .test(s)
BASIC_TICKER_RE(s) ==
    \E k \in 3..15 : \E suf \in {<<>>, USD, USDT} :
        /\ Len(s) = k + Len(suf)
        /\ \A i \in 1..k : isAlnum(s[i])
        /\ toUpperCase(SubSeq(s, k + 1, Len(s))) = suf

\* function normalizeSymbol(raw): trim, upper-case, append USDT unless the
\* string already ends in USDT or USD
normalizeSymbol(raw) ==
    LET s == toUpperCase(trim(raw))
    IN  IF endsWith(s, USDT) \/ endsWith(s, USD) THEN s ELSE s \o USDT

(***************************************************************************)
(* The raw request strings the model's clients send.                       *)
(***************************************************************************)
RawBtc == <<"b","t","c">>
RawBtcPadded == <<" ","B","t","c","U","s","d","t"," ">>
RawA == <<"A">>
RawBang == <<"!","!">>
RawLong == [i \in 1..20 |-> "X"]

RawInputs == {RawBtc, RawBtcPadded, RawA, RawBang, RawLong}

\* price-service.ts 68 and 88: (req.symbol ?? "").trim(); then
\* price-streamer.ts 182-183: normalizeSymbol(symbolRaw).toUpperCase()
addKey == [raw \in RawInputs |-> toUpperCase(normalizeSymbol(trim(raw)))]

\* price-streamer.ts 168 and 225: symbol.toUpperCase() of the trimmed request
plainKey == [raw \in RawInputs |-> toUpperCase(trim(raw))]

\* line 190: BASIC_TICKER_RE.test(symbol)
basicFormatOk == [raw \in RawInputs |-> BASIC_TICKER_RE(addKey[raw])]


(***************************************************************************)
(* State.                                                                  *)
(***************************************************************************)
VARIABLES
    browser,    \* PriceStreamer.browser is not null
    context,    \* PriceStreamer.context is not null
    starting,   \* PriceStreamer.starting
    restarting, \* PriceStreamer.restarting
    alive,      \* this.browser / this.context refer to objects that still work;
                \* hooked: the browser has its 'disconnected' handler
    signals,    \* Playwright events to be delivered: 'disconnected', context 'close'
    pages,      \* PriceStreamer.pages: symbol -> PageState object (its id)
    st,         \* the PageState objects, by id (objects outlive their map entry)
    tabs,       \* the persistent Playwright pages, by id
    probes,     \* number of open validation (probe) pages
    proc,       \* main(), and the async calls in flight: RPC calls, retryOpen loops
    reply,      \* the RPC response this step sent, with its request (NoCall: none)
    removed,    \* history: symbols removeTicker ran for, with no addTicker since
    exhausted,  \* history: symbols whose healing schedule ran out, with no
                \* addTicker or removeTicker call since
    emitted,    \* history: the price events emitted so far, in order
    listeners,  \* the emitter's 'price' listeners, in registration order
    sub         \* the streamPrices generators (one per subscription)

vars == <<browser, context, starting, restarting, alive, signals, pages, st,
          tabs, probes, proc, reply, removed, exhausted, emitted, listeners, sub>>

containerVars == <<browser, context, starting>>
envVars == <<alive, signals>>
sessionVars == <<pages, st, tabs, proc>>
streamVars == <<emitted, listeners, sub>>

\* main() of index.ts
Main == 0
Slots == 1..NSlots
Heals == (NSlots + 1)..(NSlots + NHeals)
Recs == (NSlots + NHeals + 1)..(NSlots + NHeals + NRecs)
\* the call of stop() made by shutdown() of index.ts
Stop == NSlots + NHeals + NRecs + 1
Procs == {Main} \cup Slots \cup Heals \cup Recs \cup {Stop}
PageIds == 1..MaxPages
StateIds == 1..MaxStates
SubIds == 1..NSubs

\* lastPrice: undefined
Undefined == -1

EmptyMap == [k \in {} |-> 0]

\* type PageState, as created by addTicker (line 211)
NewPageState ==
    [page |-> 0, lastPrice |-> Undefined, intentionalClose |-> FALSE, validated |-> FALSE]

\* sym: the symbol openTabForSymbol opened the page for.  open: not closed.
\* sig: its 'close' event: "none", "pending" (to be delivered), "done".
NoTab == [sym |-> <<>>, open |-> FALSE, sig |-> "none"]

\* kind, pc: which call and where it waits.  raw, sym: the request string and
\* the registry key.  ex: `existing` (line 196).  sid, page: `state` and `page`
\* of openTabForSymbol.  ok: the validator's verdict; for stop(): the close
\* it awaits was carried out.  cf: page.close() rejected.  i: retryOpen's
\* loop index.  out, success, message: how the call settled.  follows: history, see RemoveCall.  todo: the symbols a restore
\* loop has still to visit.  lost: the Playwright object the call waits on
\* has gone away, so the await will reject.  seen: the PageStates that the
\* loop of stop() has visited.
NoProc ==
    [kind |-> "none", pc |-> "idle", raw |-> <<>>, sym |-> <<>>,
     ex |-> 0, sid |-> 0, page |-> 0, ok |-> FALSE, cf |-> FALSE, i |-> 0,
     out |-> "none", success |-> FALSE, message |-> "", follows |-> FALSE,
     todo |-> <<>>, lost |-> FALSE, seen |-> {}]

NoSignals == [disconnected |-> FALSE, ctxClosed |-> FALSE]

NoCall ==
    [kind |-> "none", raw |-> <<>>, out |-> "none", success |-> FALSE, message |-> "",
     follows |-> FALSE]

NoSub ==
    [pc |-> "none", queue |-> <<>>, notify |-> FALSE, cancelReq |-> FALSE,
     delivered |-> <<>>, regAt |-> 0, cancelled |-> FALSE]

Init ==
    /\ browser = FALSE
    /\ context = FALSE
    /\ starting = FALSE
    /\ restarting = FALSE
    /\ alive = [browser |-> FALSE, context |-> FALSE, hooked |-> FALSE]
    /\ signals = NoSignals
    /\ pages = EmptyMap
    /\ st = [s \in StateIds |-> NewPageState]
    /\ tabs = [p \in PageIds |-> NoTab]
    /\ probes = 0
    /\ proc = [q \in Procs |-> NoProc]
    /\ reply = NoCall
    /\ removed = {}
    /\ exhausted = {}
    /\ emitted = <<>>
    /\ listeners = <<>>
    /\ sub = [s \in SubIds |-> NoSub]

(***************************************************************************)
(* Objects.  A PageState or a Page that nothing refers to any more is      *)
(* garbage: its id stands for a new object from then on.                   *)
(***************************************************************************)
stateRefs(pm, pr) ==
    Range(pm) \cup { pr[q].ex : q \in Procs } \cup { pr[q].sid : q \in Procs }
              \cup UNION { pr[q].seen : q \in Procs }

collectStates(sx, pm, pr) ==
    [s \in StateIds |-> IF s \in stateRefs(pm, pr) THEN sx[s] ELSE NewPageState]

tabRefs(sx, pr) ==
    { sx[s].page : s \in StateIds } \cup { pr[q].page : q \in Procs }

\* a page is gone once it is closed, its 'close' event was delivered and no
\* variable holds it
collectTabs(tx, sx, pr) ==
    [p \in PageIds |->
        IF tx[p].open \/ tx[p].sig = "pending" \/ p \in tabRefs(sx, pr)
        THEN tx[p] ELSE NoTab]

freeStates == { s \in StateIds : s \notin stateRefs(pages, proc) }
freeTabs == { p \in PageIds : tabs[p] = NoTab }
freeHeals == { h \in Heals : proc[h].pc = "idle" }
freeRecs == { r \in Recs : proc[r].pc = "idle" }
lowest(S) == CHOOSE x \in S : \A y \in S : x <= y

\* the step ends with registry pm, PageStates sx, pages tx, calls pr, and
\* sends the response re
commit(pm, sx, tx, pr, re) ==
    /\ pages' = pm
    /\ proc' = pr
    /\ reply' = re
    /\ st' = collectStates(sx, pm, pr)
    /\ tabs' = collectTabs(tx, st', pr)

(***************************************************************************)
(* Helpers on calls.                                                       *)
(***************************************************************************)
Free(q) == proc[q].pc = "idle"
InFlight(q) == ~Free(q)

\* index.ts 727-733: main() awaited start() and the server listens
listening == proc[Main].pc = "listening"

\* the server takes a new RPC call, into the first free slot
freeSlot(c) == listening /\ Free(c) /\ \A d \in Slots : d < c => InFlight(d)

\* the call's promise settles: resolved with a response, or rejected
Returned(r, success, message) ==
    [r EXCEPT !.pc = "done", !.out = "returned", !.success = success,
              !.message = message]

Threw(r) == [r EXCEPT !.pc = "done", !.out = "threw"]

\* the response of a settled call, with its request
responseOf(r) ==
    [kind |-> r.kind, raw |-> r.raw, out |-> r.out, success |-> r.success,
     message |-> r.message, follows |-> r.follows]

\* process q goes on as r: the calls in flight after it ...
procAfter(q, r) == [proc EXCEPT ![q] = IF r.pc = "done" THEN NoProc ELSE r]

\* ... and the response sent: a settled RPC call sends its own, a finished
\* retryOpen loop or recovery sends nothing
replyAfter(r) ==
    IF r.pc = "done" /\ r.kind \in {"add", "remove"} THEN responseOf(r) ELSE NoCall

\* lines 428-430: the checks before the first await, on the registry pm and
\* the context ctx.  threw: an Error leaves openTabForSymbol; otherwise sid is
\* the PageState the call holds on to (`state`)
openTabForSymbolBegin(pm, sym, ctx) ==
    IF ~ctx \/ sym \notin DOMAIN pm
    THEN [threw |-> TRUE, sid |-> 0]
    ELSE [threw |-> FALSE, sid |-> pm[sym]]

RecoveryKinds == {"relaunch", "recreate"}

\* lines 372-373 and 408-409: if (!st || st.intentionalClose) continue
restoreSkips(pm, sx, sym) ==
    sym \notin DOMAIN pm \/ sx[pm[sym]].intentionalClose

\* the restore loop (371-380, 407-416) from where it stands, with registry pm,
\* PageStates sx and this.context ctx, to the await of its next
\* openTabForSymbol (an Error thrown before that await is caught, 377-379),
\* or to its end
RECURSIVE restoreLoop(_, _, _, _)
restoreLoop(r, pm, sx, ctx) ==
    IF r.todo = <<>>
    THEN [r EXCEPT !.pc = "done"]
    ELSE LET sym == Head(r.todo)
             rest == [r EXCEPT !.todo = Tail(r.todo)]
             o == openTabForSymbolBegin(pm, sym, ctx)
         IN  IF restoreSkips(pm, sx, sym) \/ o.threw
             THEN restoreLoop(rest, pm, sx, ctx)
             ELSE [rest EXCEPT !.pc = "newpage", !.sym = sym, !.sid = o.sid,
                               !.page = 0]

\* the await the call has just reached is on an object that is gone already:
\* newPage() on a closed context, newContext() on a dead browser
issuedLost(r, al) ==
    \/ r.pc = "newpage" /\ ~al.context
    \/ r.pc = "newctx" /\ ~al.browser

\* process q goes on as r, with registry pm, PageStates sx and pages tx,
\* this.context ctx and Playwright's objects as in al; a recovery that
\* reaches its end releases the guard (lines 382, 418)
goOnUp(q, r, pm, sx, tx, ctx, al) ==
    LET r1 == IF r.pc = "restore" THEN restoreLoop(r, pm, sx, ctx) ELSE r
        r2 == [r1 EXCEPT !.lost = issuedLost(r1, al)]
    IN  /\ commit(pm, sx, tx, procAfter(q, r2), replyAfter(r2))
        /\ restarting' = IF r2.pc = "done" /\ r2.kind \in RecoveryKinds
                          THEN FALSE ELSE restarting

goOn(q, r, pm, sx, tx) == goOnUp(q, r, pm, sx, tx, context, alive)

\* PriceStreamer.hasTicker(symbol) for the request string raw
hasTicker(raw) == plainKey[raw] \in DOMAIN pages

\* the map entry of sym has a page: existing?.page is truthy
hasLivePage(sym) == sym \in DOMAIN pages /\ st[pages[sym]].page # 0

\* a delete that clears the map
mapDeleteAll(m, k) == [x \in {} |-> m[x]]

\* this.pages.delete(k)
mapDelete(m, k) == [x \in DOMAIN m \ {k} |-> m[x]]
mapSet(m, k, v) == [x \in DOMAIN m \cup {k} |-> IF x = k THEN v ELSE m[x]]

addInFlightFor(sym) ==
    \E q \in Slots : proc[q].kind = "add" /\ InFlight(q) /\ proc[q].sym = sym

\* an addTicker or removeTicker call for sym is in progress
callInFlightFor(sym) ==
    \E q \in Slots : InFlight(q) /\ proc[q].sym = sym

\* the step before sent an AddTicker response reporting success
addJustSucceeded ==
    reply.kind = "add" /\ reply.out = "returned" /\ reply.success

(***************************************************************************)
(* start()  (price-streamer.ts 115-137)                                    *)
(***************************************************************************)
\* line 116: if (this.browser || this.starting) return;
startReturnsAtOnce == browser \/ starting

\* index.ts 727-728: the process boots; main() calls streamer.start()
MainCall ==
    /\ proc[Main].pc = "idle"
    /\ LET r == [NoProc EXCEPT !.kind = "main"]
       IN  IF startReturnsAtOnce
           THEN /\ goOn(Main, [r EXCEPT !.pc = "listening"], pages, st, tabs)
                /\ UNCHANGED starting
           ELSE /\ starting' = TRUE
                /\ goOn(Main, [r EXCEPT !.pc = "launch"], pages, st, tabs)
    /\ UNCHANGED <<envVars, browser, context, probes, removed, exhausted, streamVars>>

\* start() throws into its caller: main() exits the process (index.ts
\* 735-738), addTicker has no try/catch
afterStartThrew(r) ==
    IF r.kind = "main" THEN [r EXCEPT !.pc = "exited"] ELSE Threw(r)

\* line 120: await chromium.launch(...) settles
StartLaunch(q) ==
    /\ proc[q].pc = "launch"
    /\ proc[q].kind \notin RecoveryKinds
    /\ \/ /\ browser' = TRUE
          /\ alive' = [alive EXCEPT !.browser = TRUE, !.hooked = FALSE]
          /\ goOnUp(q, [proc[q] EXCEPT !.pc = "newctx"], pages, st, tabs,
                    context, alive')
       \/ /\ goOn(q, afterStartThrew(proc[q]), pages, st, tabs)
          /\ UNCHANGED <<browser, alive>>
    /\ UNCHANGED <<signals, context, starting, probes, removed, exhausted, streamVars>>

(***************************************************************************)
(* validateTickerFast  (price-streamer.ts 256-338)                         *)
(***************************************************************************)
\* what the probe page shows, and whether budget is left for the sprint wait
ProbeContents ==
    [navOk : BOOLEAN, invalidNow : BOOLEAN, invalidSoon : BOOLEAN,
     priceNow : BOOLEAN, budgetLeft : BOOLEAN, priceSoon : BOOLEAN,
     jsonLd : BOOLEAN]

\* a validator that looks for a price before it looks for an invalid marker
validateTickerFastPriceFirst(c) ==
    IF ~c.navOk THEN FALSE
    ELSE IF c.priceNow THEN TRUE
    ELSE IF c.invalidNow THEN FALSE
    ELSE IF c.invalidSoon THEN FALSE
    ELSE IF c.budgetLeft /\ c.priceSoon THEN TRUE
    ELSE IF c.jsonLd THEN TRUE
    ELSE FALSE

\* lines 264-333: the verdict, in the order the code decides it
validateTickerFast(c) ==
    IF ~c.navOk THEN FALSE                        \* goto rejects: catch, 331-333
    ELSE IF c.invalidNow THEN FALSE               \* 269-274
    ELSE IF c.invalidSoon THEN FALSE              \* 276-279
    ELSE IF c.priceNow THEN TRUE                  \* 285-290
    ELSE IF c.budgetLeft /\ c.priceSoon THEN TRUE \* 293-303
    ELSE IF c.jsonLd THEN TRUE                    \* 306-327
    ELSE FALSE                                    \* 329-330

ValidateVerdicts == { validateTickerFast(c) : c \in ProbeContents }

\* a validator whose finally block does not close the probe page
probesAfterFinallyNoClose(n) == n

\* a validator that closes the probe page only while another is open
probesAfterFinallyButLast(n) == IF n > 1 THEN n - 1 ELSE n

\* lines 334-337: finally { await page.close().catch(() => {}) }: the number
\* of open probe pages after it
probesAfterFinally(n) == n - 1

(***************************************************************************)
(* openTabForSymbol  (price-streamer.ts 425-635)                           *)
(***************************************************************************)
\* how the caller of openTabForSymbol goes on when it returns
afterOpenReturned(r) ==
    IF r.kind = "add"
    THEN Returned(r, TRUE, "")                    \* addTicker line 220
    ELSE IF r.kind \in RecoveryKinds
    THEN [r EXCEPT !.pc = "restore"]              \* restore loop 376, 412
    ELSE [r EXCEPT !.pc = "done"]                 \* retryOpen line 647

\* ... and when it throws
afterOpenThrew(r) ==
    IF r.kind = "add"
    THEN Threw(r)                                 \* addTicker has no try/catch
    ELSE IF r.kind \in RecoveryKinds
    THEN [r EXCEPT !.pc = "restore", !.sid = 0, !.page = 0]  \* caught, 377-379
    ELSE [r EXCEPT !.pc = "backoff", !.sid = 0, !.page = 0]  \* retryOpen 648-651

\* the caller, holding record r, enters openTabForSymbol with registry pm and
\* runs to the await of context.newPage() (line 433)
openTab(r, pm) ==
    LET o == openTabForSymbolBegin(pm, r.sym, context)
    IN  IF o.threw
        THEN afterOpenThrew(r)
        ELSE [r EXCEPT !.pc = "newpage", !.sid = o.sid]

\* line 433: context.newPage() settles; then page.on("close"), exposeFunction,
\* addInitScript, up to the await of page.goto (434-621)
OpenNewPage(q) ==
    /\ proc[q].pc = "newpage"
    /\ \/ goOn(q, afterOpenThrew(proc[q]), pages, st, tabs)
       \/ /\ ~proc[q].lost
          /\ freeTabs # {}
          /\ LET p == lowest(freeTabs)
             IN  goOn(q, [proc[q] EXCEPT !.pc = "opening", !.page = p], pages, st,
                      [tabs EXCEPT ![p] = [sym |-> proc[q].sym, open |-> TRUE,
                                           sig |-> "none"]])
    /\ UNCHANGED <<envVars, containerVars, probes, removed, exhausted, streamVars>>

(***************************************************************************)
(* addTicker  (price-service.ts 67-81, price-streamer.ts 181-221)          *)
(***************************************************************************)
\* price-service.ts 71: the facade's duplicate guard
facadeRejectsDuplicate(raw) == hasTicker(raw)

\* price-streamer.ts 187-203, from the return of start() to the await in
\* validateTickerFast; b and ctx are this.browser and this.context then
addAfterStart(c, r, b, ctx, al) ==
    IF ~b \/ ~ctx
    THEN /\ goOn(c, Returned(r, FALSE, "Browser not started"), pages, st, tabs)
         /\ UNCHANGED probes
    ELSE IF ~basicFormatOk[r.raw]
    THEN /\ goOn(c, Returned(r, FALSE, "Invalid ticker"), pages, st, tabs)
         /\ UNCHANGED probes
    ELSE IF hasLivePage(r.sym)
    THEN /\ goOn(c, Returned(r, TRUE, ""), pages, st, tabs)
         /\ UNCHANGED probes
    ELSE \* validateTickerFast 257-263: context.newPage() for the probe
         \/ /\ goOn(c, Threw(r), pages, st, tabs)
            /\ UNCHANGED probes
         \/ /\ al.context
            /\ goOn(c, [r EXCEPT !.pc = "validating",
                                 !.ex = IF r.sym \in DOMAIN pages
                                        THEN pages[r.sym] ELSE 0],
                    pages, st, tabs)
            /\ probes' = probes + 1

\* the AddTicker RPC arrives with req.symbol = raw
AddCall(c, raw) ==
    /\ freeSlot(c)
    /\ LET r == [NoProc EXCEPT !.kind = "add", !.raw = raw, !.sym = addKey[raw]]
       IN  /\ removed' = removed \ {r.sym}
           /\ exhausted' = exhausted \ {r.sym}
           /\ IF facadeRejectsDuplicate(raw)
              THEN /\ goOn(c, Returned(r, FALSE, "Ticker already being tracked"),
                           pages, st, tabs)
                   /\ UNCHANGED <<starting, probes>>
              ELSE IF (~browser \/ ~context) /\ ~startReturnsAtOnce
              THEN \* line 186 enters start(), which launches
                   /\ starting' = TRUE
                   /\ goOn(c, [r EXCEPT !.pc = "launch"], pages, st, tabs)
                   /\ UNCHANGED probes
              ELSE /\ addAfterStart(c, r, browser, context, alive)
                   /\ UNCHANGED starting
    /\ UNCHANGED <<envVars, browser, context, streamVars>>

\* line 121: await this.browser.newContext() settles; start() ends and its
\* caller goes on: main() to server.listen, addTicker to line 187
StartContext(q) ==
    /\ proc[q].pc = "newctx"
    /\ proc[q].kind \notin RecoveryKinds
    /\ \/ /\ ~proc[q].lost
          /\ context' = TRUE
          /\ starting' = FALSE
          \* 125-134: the handlers for 'close' and 'disconnected' are installed
          /\ alive' = [alive EXCEPT !.context = TRUE, !.hooked = TRUE]
          /\ IF proc[q].kind = "add"
             THEN addAfterStart(q, proc[q], browser, TRUE, alive')
             ELSE /\ goOnUp(q, [proc[q] EXCEPT !.pc = "listening"], pages, st, tabs,
                            TRUE, alive')
                  /\ UNCHANGED probes
       \/ /\ goOn(q, afterStartThrew(proc[q]), pages, st, tabs)
          /\ UNCHANGED <<context, starting, probes, alive>>
    /\ UNCHANGED <<signals, browser, removed, exhausted, streamVars>>

\* validateTickerFast 266-337 settles (the probe page's awaits, the verdict,
\* the finally block closing the probe page), then addTicker 204-219 up to the
\* await in openTabForSymbol
\* ok: the verdict of validateTickerFast
ValidateSettle(c, ok) ==
    /\ proc[c].pc = "validating"
    /\ probes' = probesAfterFinally(probes)
    /\ LET r == [proc[c] EXCEPT !.ok = ok]
       IN  IF ~r.ok
           THEN goOn(c, Returned(r, FALSE, "Invalid ticker"), pages, st, tabs)
           ELSE IF r.ex = 0
           THEN \* line 211: this.pages.set(symbol, {...})
                /\ freeStates # {}
                /\ LET s == lowest(freeStates)
                       pm == mapSet(pages, r.sym, s)
                   IN  goOn(c, openTab(r, pm), pm,
                            [st EXCEPT ![s] = NewPageState], tabs)
           ELSE \* lines 214-215, on the object read at line 196
                goOn(c, openTab(r, pages), pages,
                     [st EXCEPT ![r.ex].intentionalClose = FALSE,
                                ![r.ex].validated = FALSE],
                     tabs)
    /\ UNCHANGED <<envVars, containerVars, removed, exhausted, streamVars>>

\* the validation of call c settles on a probe page that shows `shown`
ValidateWith(c, shown) ==
    /\ proc[c].lost => ~shown.navOk                   \* goto rejects: 331-333
    /\ ValidateSettle(c, validateTickerFast(shown))

Validate(c) ==
    \E ok \in ValidateVerdicts :
        /\ proc[c].lost => ~ok                        \* goto rejects: 331-333
        /\ ValidateSettle(c, ok)

\* page.close(), or the tab going away: the page is closed and, when it was
\* open, Playwright will deliver its 'close' event
closeTab(t, p) ==
    [t EXCEPT ![p].open = FALSE,
              ![p].sig = IF t[p].open THEN "pending" ELSE t[p].sig]

\* line 627: state.intentionalClose = true, on the PageState s the call holds
closeWithoutReopen(sx, s) == [sx EXCEPT ![s].intentionalClose = TRUE]

\* openTabForSymbol 621-634: goto settles, then the post-navigation guard
OpenNav(q) ==
    /\ proc[q].pc = "opening"
    /\ LET r == proc[q]
           p == proc[q].page
       IN  \/ \* goto (or a hook installed before it) rejects: the Error leaves
              \* openTabForSymbol, nothing closes the page
              goOn(q, afterOpenThrew(r), pages, st, tabs)
           \/ \* 625-628: invalid marker seen; close without reopen
              /\ ~r.lost
              /\ tabs[p].open
              /\ goOn(q, [r EXCEPT !.pc = "oclose"], pages,
                      closeWithoutReopen(st, r.sid),
                      closeTab(tabs, p))
           \/ \* 633: state.page = page
              /\ ~r.lost
              /\ goOn(q, afterOpenReturned(r), pages, [st EXCEPT ![r.sid].page = p], tabs)
    /\ UNCHANGED <<envVars, containerVars, probes, removed, exhausted, streamVars>>

\* openTabForSymbol 629-630: after page.close() settled
OpenInvalidDone(q) ==
    /\ proc[q].pc = "oclose"
    /\ goOn(q, afterOpenReturned(proc[q]), mapDelete(pages, proc[q].sym), st, tabs)
    /\ UNCHANGED <<envVars, containerVars, probes, removed, exhausted, streamVars>>

(***************************************************************************)
(* The page 'close' handler and retryOpen  (441-457, 638-654)              *)
(***************************************************************************)
\* const delays = [500, 1000, 2000, 4000]
delays == <<500, 1000, 2000, 4000>>

\* line 650: the delay that the failed attempt of call record r waits,
\* delays[i] with i counted from 0
waited(r) == delays[r.i + 1]

\* a close handler that does not look at validated
closeHandlerHealsUnvalidated(sym) ==
    /\ sym \in DOMAIN pages
    /\ ~st[pages[sym]].intentionalClose

\* lines 442-452: the handler goes on to reopen
closeHandlerHeals(sym) ==
    /\ sym \in DOMAIN pages
    /\ ~st[pages[sym]].intentionalClose
    /\ st[pages[sym]].validated

\* line 640: retryOpen goes on to its loop
retryOpenRuns(sym) ==
    /\ sym \in DOMAIN pages
    /\ ~st[pages[sym]].intentionalClose
    /\ st[pages[sym]].validated

\* the tab is closed from outside: the user closes it, or it crashes
ExternalClose(p) ==
    /\ tabs[p].open
    /\ commit(pages, st, closeTab(tabs, p),
              [q \in Procs |-> IF proc[q].pc = "opening" /\ proc[q].page = p
                               THEN [proc[q] EXCEPT !.lost = TRUE] ELSE proc[q]],
              NoCall)
    /\ UNCHANGED <<restarting, envVars, containerVars, probes, removed, exhausted, streamVars>>

\* Playwright delivers the 'close' event of page p: lines 441-457, and
\* retryOpen up to the first await of its first attempt
CloseHandler(p) ==
    /\ tabs[p].sig = "pending"
    /\ LET sym == tabs[p].sym
           t1 == [tabs EXCEPT ![p].sig = "done"]
       IN  IF closeHandlerHeals(sym)
           THEN LET s1 == [st EXCEPT ![pages[sym]].page = 0]
                IN  IF retryOpenRuns(sym)
                    THEN /\ freeHeals # {}
                         /\ goOn(lowest(freeHeals),
                                 openTab([NoProc EXCEPT !.kind = "heal", !.sym = sym], pages),
                                 pages, s1, t1)
                    ELSE commit(pages, s1, t1, proc, NoCall) /\ UNCHANGED restarting
           ELSE commit(pages, st, t1, proc, NoCall) /\ UNCHANGED restarting
    /\ UNCHANGED <<envVars, containerVars, probes, removed, exhausted, streamVars>>

\* retryOpen 650 then 643-645: the backoff timer fires; next attempt, or give up
HealRetry(h) ==
    /\ proc[h].kind = "heal"
    /\ proc[h].pc = "backoff"
    /\ LET r == [proc[h] EXCEPT !.i = proc[h].i + 1]
       IN  IF r.i < Len(delays)
           THEN /\ goOn(h, openTab(r, pages), pages, st, tabs)
                /\ UNCHANGED exhausted
           ELSE \* line 653: the schedule ran out
                /\ goOn(h, [r EXCEPT !.pc = "done"], pages, st, tabs)
                /\ exhausted' = IF r.sym \in DOMAIN pages /\ ~callInFlightFor(r.sym)
                                THEN exhausted \cup {r.sym} ELSE exhausted
    /\ UNCHANGED <<envVars, containerVars, probes, removed, streamVars>>

(***************************************************************************)
(* Container-level failure and recovery  (price-streamer.ts 124-134,       *)
(* 344-419)                                                                *)
(***************************************************************************)
\* Array.from(this.pages.keys()): the keys of the registry, as a sequence
RECURSIVE keysOf(_)
keysOf(pm) ==
    IF DOMAIN pm = {}
    THEN <<>>
    ELSE LET k == CHOOSE k \in DOMAIN pm : TRUE
         IN  <<k>> \o keysOf(mapDelete(pm, k))

\* a recovery that starts every session afresh
restoreClearsReadings(sx, pm) ==
    [s \in StateIds |-> IF s \in Range(pm)
                        THEN [sx[s] EXCEPT !.page = 0, !.lastPrice = Undefined]
                        ELSE sx[s]]

\* lines 349 and 391: for (const st of this.pages.values()) st.page = null
restoreClears(sx, pm) ==
    [s \in StateIds |-> IF s \in Range(pm) THEN [sx[s] EXCEPT !.page = 0] ELSE sx[s]]

\* every tab of the window goes away with it
closeAllTabs(t) ==
    [p \in PageIds |-> [t[p] EXCEPT !.open = FALSE,
                                     !.sig = IF t[p].open THEN "pending" ELSE t[p].sig]]

\* the calls that wait on a page or on the context lose what they wait on;
\* withBrowser: those that wait on the browser as well
losing(pr, withBrowser) ==
    [q \in Procs |->
        IF \/ pr[q].pc \in {"validating", "newpage", "opening"}
           \/ withBrowser /\ pr[q].pc = "newctx"
        THEN [pr[q] EXCEPT !.lost = TRUE] ELSE pr[q]]

\* the browser process dies (crash, or closed by the user): its window and
\* tabs go with it; Playwright will emit 'disconnected' on the browser, if
\* the program listens to it, and 'close' on the context
browserGoes(pr) ==
    /\ alive.browser
    /\ alive' = [alive EXCEPT !.browser = FALSE, !.context = FALSE]
    /\ signals' = [disconnected |-> signals.disconnected \/ alive.hooked,
                   ctxClosed |-> signals.ctxClosed \/ alive.context]
    /\ commit(pages, st, closeAllTabs(tabs), losing(pr, TRUE), NoCall)
    /\ UNCHANGED <<restarting, containerVars, probes, removed, exhausted, streamVars>>

BrowserCrash == browserGoes(proc)

\* the window (context) is closed while the browser lives on
windowGoes(pr) ==
    /\ alive.context
    /\ alive' = [alive EXCEPT !.context = FALSE]
    /\ signals' = [signals EXCEPT !.ctxClosed = TRUE]
    /\ commit(pages, st, closeAllTabs(tabs), losing(pr, FALSE), NoCall)
    /\ UNCHANGED <<restarting, containerVars, probes, removed, exhausted, streamVars>>

WindowClose == windowGoes(proc)

\* a recovery handler that does not look at this.restarting
recoveryGuardedNever(r) == FALSE

\* lines 345 and 387: if (this.restarting) return
recoveryGuarded(r) == r

\* the handler passes its guards and starts: 346-349, 388-391, up to its
\* first await, as call record r
recoveryStarts(r) ==
    /\ freeRecs # {}
    /\ restarting' = TRUE
    /\ commit(pages, restoreClears(st, pages), tabs,
              [proc EXCEPT ![lowest(freeRecs)] = [r EXCEPT !.todo = keysOf(pages)]],
              NoCall)

recoveryReturns ==
    /\ commit(pages, st, tabs, proc, NoCall)
    /\ UNCHANGED restarting

\* Playwright delivers 'disconnected': relaunchAndRestore, lines 344-353
OnDisconnected ==
    /\ signals.disconnected
    /\ signals' = [signals EXCEPT !.disconnected = FALSE]
    /\ IF recoveryGuarded(restarting)
       THEN recoveryReturns
       ELSE recoveryStarts([NoProc EXCEPT !.kind = "relaunch", !.pc = "launch"])
    /\ UNCHANGED <<alive, containerVars, probes, removed, exhausted, streamVars>>

\* Playwright delivers the context's 'close': recreateContextAndRestore,
\* lines 385-395
OnContextClose ==
    /\ signals.ctxClosed
    /\ signals' = [signals EXCEPT !.ctxClosed = FALSE]
    /\ IF ~browser \/ recoveryGuarded(restarting)
       THEN recoveryReturns
       ELSE recoveryStarts([NoProc EXCEPT !.kind = "recreate", !.pc = "newctx",
                                         !.lost = ~alive.browser])
    /\ UNCHANGED <<alive, containerVars, probes, removed, exhausted, streamVars>>

\* line 353: await chromium.launch(...) settles; a rejection is caught
\* (365-369)
RecoverLaunch(q) ==
    /\ proc[q].kind = "relaunch"
    /\ proc[q].pc = "launch"
    /\ \/ /\ browser' = TRUE
          /\ alive' = [alive EXCEPT !.browser = TRUE, !.hooked = FALSE]
          /\ goOnUp(q, [proc[q] EXCEPT !.pc = "newctx"], pages, st, tabs,
                    context, alive')
       \/ /\ goOn(q, [proc[q] EXCEPT !.pc = "done"], pages, st, tabs)
          /\ UNCHANGED <<browser, alive>>
    /\ UNCHANGED <<signals, context, starting, probes, removed, exhausted, streamVars>>

\* lines 354 and 395: await this.browser.newContext() settles; the handlers
\* are installed (356-364, 397-400) and the restore loop begins; a rejection
\* is caught (365-369, 401-405)
RecoverContext(q) ==
    /\ proc[q].kind \in RecoveryKinds
    /\ proc[q].pc = "newctx"
    /\ \/ /\ ~proc[q].lost
          /\ context' = TRUE
          /\ alive' = [alive EXCEPT !.context = TRUE,
                                    !.hooked = alive.hooked \/ proc[q].kind = "relaunch"]
          /\ goOnUp(q, [proc[q] EXCEPT !.pc = "restore"], pages, st, tabs,
                    TRUE, alive')
       \/ /\ goOn(q, [proc[q] EXCEPT !.pc = "done"], pages, st, tabs)
          /\ UNCHANGED <<context, alive>>
    /\ UNCHANGED <<signals, browser, starting, probes, removed, exhausted, streamVars>>

(***************************************************************************)
(* stop()  (price-streamer.ts 140-164), called by shutdown() of index.ts   *)
(* (743-750) on SIGINT and SIGTERM                                         *)
(***************************************************************************)
\* stop() has returned and shutdown() has called process.exit(0)
\* (index.ts, line 749 of the listing)
Exited == [NoProc EXCEPT !.kind = "stop", !.pc = "exited"]

exited == proc[Stop].pc = "exited"

\* lines 159-163, from `if (this.browser)`: browser.close() is called, or
\* stop() returns
stopBrowser(r, pm, sx, tx, pr) ==
    commit(pm, sx, tx,
           [pr EXCEPT ![Stop] = IF browser
                                THEN [r EXCEPT !.pc = "sbrw", !.sid = 0, !.page = 0,
                                               !.ok = ~alive.browser]
                                ELSE Exited],
           NoCall)

\* lines 142-157, from the head of the loop: the next entry of the registry
\* is marked and its page closed (144-145); or, after the last entry, the
\* registry is cleared (151) and context.close() is called (153-154)
stopFrom(r, sx) ==
    LET next == { k \in DOMAIN pages : pages[k] \notin r.seen }
    IN  IF next # {}
        THEN LET s == pages[CHOOSE k \in next : TRUE]
                 p == sx[s].page
             IN  /\ commit(pages, [sx EXCEPT ![s].intentionalClose = TRUE],
                           IF p # 0 THEN closeTab(tabs, p) ELSE tabs,
                           [proc EXCEPT ![Stop] = [r EXCEPT !.pc = "sclose", !.sid = s,
                                                            !.page = p,
                                                            !.seen = r.seen \cup {s}]],
                           NoCall)
        ELSE IF context
        THEN commit(EmptyMap, sx, tabs,
                    [proc EXCEPT ![Stop] = [r EXCEPT !.pc = "sctx", !.sid = 0,
                                                     !.page = 0, !.seen = {},
                                                     !.ok = ~alive.context]],
                    NoCall)
        ELSE stopBrowser([r EXCEPT !.seen = {}], EmptyMap, sx, tabs, proc)

\* shutdown() calls streamer.stop()
StopCall ==
    /\ proc[Stop].pc = "idle"
    /\ stopFrom([NoProc EXCEPT !.kind = "stop"], st)
    /\ UNCHANGED <<restarting, envVars, containerVars, probes, removed, exhausted,
                   streamVars>>

\* line 145: await state.page?.close() settles; a rejection is caught
StopPageClosed ==
    /\ proc[Stop].pc = "sclose"
    /\ stopFrom(proc[Stop], st)
    /\ UNCHANGED <<restarting, envVars, containerVars, probes, removed, exhausted,
                   streamVars>>

\* Playwright carries out the context.close() that stop() awaits
StopClosesContext ==
    /\ proc[Stop].pc = "sctx"
    /\ ~proc[Stop].ok
    /\ windowGoes([proc EXCEPT ![Stop].ok = TRUE])

\* line 154: await this.context.close() resolves; 155: this.context = null
StopContextClosed ==
    /\ proc[Stop].pc = "sctx"
    /\ proc[Stop].ok
    /\ context' = FALSE
    /\ stopBrowser(proc[Stop], pages, st, tabs, proc)
    /\ UNCHANGED <<restarting, envVars, browser, starting, probes, removed, exhausted,
                   streamVars>>

\* Playwright carries out the browser.close() that stop() awaits
StopClosesBrowser ==
    /\ proc[Stop].pc = "sbrw"
    /\ ~proc[Stop].ok
    /\ browserGoes([proc EXCEPT ![Stop].ok = TRUE])

\* line 160: await this.browser.close() resolves; 161: this.browser = null;
\* stop() returns
StopBrowserClosed ==
    /\ proc[Stop].pc = "sbrw"
    /\ proc[Stop].ok
    /\ browser' = FALSE
    /\ commit(pages, st, tabs, [proc EXCEPT ![Stop] = Exited], NoCall)
    /\ UNCHANGED <<restarting, envVars, context, starting, probes, removed, exhausted,
                   streamVars>>

(***************************************************************************)
(* removeTicker  (price-service.ts 87-94, price-streamer.ts 224-242)       *)
(***************************************************************************)
\* a removeTicker with no try/catch around page.close(): a rejection leaves
\* the call and line 241 is not reached
removeTickerSettleNoCatch(r) ==
    IF r.cf
    THEN [call |-> Threw(r), delete |-> FALSE]
    ELSE [call |-> Returned(r, TRUE, ""), delete |-> TRUE]

\* lines 236-241 and price-service.ts 93, once page.close() has settled
\* (r.cf: it rejected): how the call ends, and whether the entry is deleted
removeTickerSettle(r) ==
    [call |-> Returned(r, TRUE, ""), delete |-> TRUE]

\* the RemoveTicker RPC arrives with req.symbol = raw.
\* follows: it comes right after the success response of an AddTicker with
\* the same request string
RemoveCall(c, raw) ==
    /\ freeSlot(c)
    /\ LET symbol == plainKey[raw]
           r == [NoProc EXCEPT !.kind = "remove", !.raw = raw, !.sym = symbol,
                               !.follows = addJustSucceeded /\ reply.raw = raw]
       IN  /\ exhausted' = exhausted \ {symbol}
           /\ IF symbol \notin DOMAIN pages
              THEN \* 229-232
                   /\ goOn(c, Returned(r, TRUE, ""), pages, st, tabs)
                   /\ UNCHANGED removed
              ELSE LET s == pages[symbol]
                       p == st[s].page
                       s1 == [st EXCEPT ![s].intentionalClose = TRUE]
                   IN  /\ removed' = IF addInFlightFor(symbol)
                                     THEN removed ELSE removed \cup {symbol}
                       /\ IF p # 0
                          THEN \* 236: await state.page.close()
                               goOn(c, [r EXCEPT !.pc = "rclose"],
                                    pages, s1, closeTab(tabs, p))
                          ELSE goOn(c, Returned(r, TRUE, ""), mapDelete(pages, symbol),
                                    s1, tabs)
    /\ UNCHANGED <<envVars, containerVars, probes, streamVars>>

\* line 236: page.close() settles; it resolved, or it rejected (cf)
RemoveFinish(c) ==
    /\ proc[c].pc = "rclose"
    /\ \E cf \in BOOLEAN :
         LET e == removeTickerSettle([proc[c] EXCEPT !.cf = cf])
         IN  goOn(c, e.call,
                  IF e.delete THEN mapDelete(pages, proc[c].sym) ELSE pages,
                  st, tabs)
    /\ UNCHANGED <<envVars, containerVars, probes, removed, exhausted, streamVars>>

(***************************************************************************)
(* __reportPrice and the emitter -> iterator bridge                        *)
(* (price-streamer.ts 460-487, price-service.ts 37-49, 103-147)            *)
(***************************************************************************)
\* the strings a page reports: a number, or text with no number in it
Texts == [num : {TRUE}, val : 0..MaxPrice] \cup {[num |-> FALSE, val |-> 0]}

\* Number.parseFloat(cleaned) is NaN
isNaN(text) == ~text.num

\* toTickerUpdate(evt): the event's fields wrapped in a TickerUpdate
toTickerUpdate(evt) == [ticker |-> evt]

\* a push onto a queue that holds one message at most and drops the rest
pushBounded(x, msg) ==
    IF Len(x.queue) >= 1
    THEN x
    ELSE [x EXCEPT !.queue = Append(x.queue, msg),
                   !.notify = FALSE,
                   !.pc = IF x.notify THEN "woken" ELSE x.pc]

\* a push that enqueues and leaves the waiting iterator asleep
pushNoWake(x, msg) ==
    [x EXCEPT !.queue = Append(x.queue, msg)]

\* price-service.ts 116-123: push onto a subscription's queue and wake it
push(x, msg) ==
    [x EXCEPT !.queue = Append(x.queue, msg),
              !.notify = FALSE,
              !.pc = IF x.notify THEN "woken" ELSE x.pc]

\* price-service.ts 126-128
onPrice(x, evt) == push(x, toTickerUpdate(evt))

\* EventEmitter.emit("price", evt): every registered listener is called
emit(evt) ==
    [x \in SubIds |-> IF x \in Range(listeners) THEN onPrice(sub[x], evt) ELSE sub[x]]

\* a finally block that calls removeAllListeners("price")
offAll(ls, x) == <<>>

\* a finally block that leaves the listener on the emitter
offNone(ls, x) == ls

\* EventEmitter.off("price", onPrice)
off(ls, x) == SelectSeq(ls, LAMBDA y : y # x)

\* a __reportPrice whose first reading is compared with zero: prev is
\* st.lastPrice ?? 0
prevOfZero(last, cur) == IF last = Undefined THEN 0 ELSE last

\* line 468: const prev = st.lastPrice ?? cur
prevOf(last, cur) == IF last = Undefined THEN cur ELSE last

\* line 472 and 481: pct = prev !== 0 ? (diff / prev) * 100 : 0, as
\* toFixed(2) prints it: in hundredths of a percent, rounded to the nearest
pctOf(diff, prev) ==
    IF prev = 0 THEN 0
    ELSE LET n == diff * 10000
             a == IF n >= 0 THEN n ELSE -n
             b == IF prev >= 0 THEN prev ELSE -prev
             q == (2 * a + b) \div (2 * b)
         IN  IF (n >= 0) = (prev >= 0) THEN q ELSE -q

\* the page calls window.__reportPrice(text).  The history follows the
\* first cap events; later ones are only taken while nobody listens.
ReportPrice(p, text, cap) ==
    /\ tabs[p].open
    /\ Len(emitted) < cap \/ listeners = <<>>
    /\ LET sym == tabs[p].sym
       IN  IF isNaN(text) \/ sym \notin DOMAIN pages
           THEN UNCHANGED <<st, emitted, sub>>           \* 463, 466
           ELSE LET s == pages[sym]
                    cur == text.val
                    prev == prevOf(st[s].lastPrice, cur)
                    evt == [symbol |-> sym, price |-> cur, change |-> cur - prev,
                            changePercent |-> pctOf(cur - prev, prev),
                            id |-> Len(emitted) + 1]
                IN  /\ st' = [st EXCEPT ![s].lastPrice = cur, ![s].validated = TRUE]
                    /\ emitted' = IF Len(emitted) < cap
                                  THEN Append(emitted, evt) ELSE emitted
                    /\ sub' = emit(evt)
    /\ reply' = NoCall
    /\ UNCHANGED <<restarting, envVars, containerVars, pages, tabs, probes, proc,
                   removed, exhausted, listeners>>

(***************************************************************************)
(* streamPrices  (price-service.ts 103-147), an async generator.           *)
(* A generator object is suspendedStart until its first next(), and        *)
(* suspended at a yield between deliveries; while its body runs or waits   *)
(* at an await it is executing, and a return() that arrives then is queued *)
(* until the body reaches its next yield.                                  *)
(***************************************************************************)
\* line 130, then the loop 134-141 with the queue just created
registerListener(x) ==
    [x EXCEPT !.pc = "awaitNotify", !.notify = TRUE, !.regAt = Len(emitted)]

\* a main loop that yields queue.pop(), the newest message
mainLoopPop(x) ==
    IF Len(x.queue) > 0
    THEN [x EXCEPT !.queue = SubSeq(x.queue, 1, Len(x.queue) - 1),
                   !.delivered = Append(x.delivered, x.queue[Len(x.queue)]),
                   !.pc = "suspendedYield"]
    ELSE [x EXCEPT !.pc = "awaitNotify", !.notify = TRUE]

\* lines 134-141: one turn of the main loop
mainLoop(x) ==
    IF Len(x.queue) > 0
    THEN [x EXCEPT !.queue = Tail(x.queue),                 \* yield queue.shift()
                   !.delivered = Append(x.delivered, Head(x.queue)),
                   !.pc = "suspendedYield"]
    ELSE [x EXCEPT !.pc = "awaitNotify", !.notify = TRUE]   \* await new Promise(...)

\* the generator completes: its queue and notify go with its frame
finished(x) ==
    [x EXCEPT !.pc = "done", !.queue = <<>>, !.notify = FALSE, !.cancelReq = FALSE]

\* return() reaches a generator in position pc: does it complete at once?
returnCompletes(pc) == pc \in {"suspendedStart", "suspendedYield"}

\* a client connects: the transport calls streamPrices(req)
Subscribe(s) ==
    /\ reply' = NoCall
    /\ listening
    /\ sub[s].pc = "none"
    /\ sub' = [sub EXCEPT ![s].pc = "suspendedStart"]
    /\ UNCHANGED <<restarting, envVars, containerVars, sessionVars, probes, removed, exhausted,
                   emitted, listeners>>

\* the transport calls next()
Pull(s) ==
    /\ reply' = NoCall
    /\ ~sub[s].cancelled
    /\ \/ /\ sub[s].pc = "suspendedStart"
          /\ IF startReturnsAtOnce
             THEN \* line 107 returns at once; 130; 134-140
                  /\ sub' = [sub EXCEPT ![s] = registerListener(sub[s])]
                  /\ listeners' = Append(listeners, s)
                  /\ UNCHANGED starting
             ELSE /\ starting' = TRUE
                  /\ sub' = [sub EXCEPT ![s].pc = "launch"]
                  /\ UNCHANGED listeners
       \/ /\ sub[s].pc = "suspendedYield"
          /\ sub' = [sub EXCEPT ![s] = mainLoop(sub[s])]
          /\ UNCHANGED <<starting, listeners>>
    /\ UNCHANGED <<restarting, envVars, browser, context, sessionVars, probes,
                   removed, exhausted, emitted>>

\* line 107 -> price-streamer.ts 120: chromium.launch settles.  (Once main()
\* has started the browser, start() returns at once: this step and the next
\* are never enabled in a process that listens.)
SubLaunch(s) ==
    /\ reply' = NoCall
    /\ sub[s].pc = "launch"
    /\ \/ /\ browser' = TRUE
          /\ alive' = [alive EXCEPT !.browser = TRUE, !.hooked = FALSE]
          /\ sub' = [sub EXCEPT ![s].pc = "newctx"]
       \/ /\ sub' = [sub EXCEPT ![s] = finished(sub[s])]   \* start() throws before the try
          /\ UNCHANGED <<browser, alive>>
    /\ UNCHANGED <<restarting, signals, context, starting, sessionVars, probes,
                   removed, exhausted, emitted, listeners>>

\* line 107 -> price-streamer.ts 121: newContext settles; then 130, 134-140
SubContext(s) ==
    /\ reply' = NoCall
    /\ sub[s].pc = "newctx"
    /\ \/ /\ alive.browser
          /\ context' = TRUE
          /\ starting' = FALSE
          /\ alive' = [alive EXCEPT !.context = TRUE, !.hooked = TRUE]
          /\ sub' = [sub EXCEPT ![s] = registerListener(sub[s])]
          /\ listeners' = Append(listeners, s)
       \/ /\ sub' = [sub EXCEPT ![s] = finished(sub[s])]
          /\ UNCHANGED <<context, starting, listeners, alive>>
    /\ UNCHANGED <<restarting, signals, browser, sessionVars, probes, removed, exhausted, emitted>>

\* the notify promise was resolved: the body goes on from line 140; when it
\* yields and a return() is queued, the finally block runs (142-146)
Resume(s) ==
    /\ reply' = NoCall
    /\ sub[s].pc = "woken"
    /\ LET x == mainLoop(sub[s])
       IN  IF x.pc = "suspendedYield" /\ x.cancelReq
           THEN /\ sub' = [sub EXCEPT ![s] = finished(x)]
                /\ listeners' = off(listeners, s)
           ELSE /\ sub' = [sub EXCEPT ![s] = x]
                /\ UNCHANGED listeners
    /\ UNCHANGED <<restarting, envVars, containerVars, sessionVars, probes, removed, exhausted,
                   emitted>>

\* the client cancels: the transport calls return() on the generator
Cancel(s) ==
    /\ reply' = NoCall
    /\ sub[s].pc \notin {"none", "done"}
    /\ ~sub[s].cancelled
    /\ IF returnCompletes(sub[s].pc)
       THEN \* suspendedStart: the body never ran, no listener to remove;
            \* suspendedYield: return at the yield runs finally, line 144
            /\ sub' = [sub EXCEPT ![s] = [finished(sub[s]) EXCEPT !.cancelled = TRUE]]
            /\ listeners' = off(listeners, s)
       ELSE \* executing: the request waits for the next yield
            /\ sub' = [sub EXCEPT ![s].cancelled = TRUE, ![s].cancelReq = TRUE]
            /\ UNCHANGED listeners
    /\ UNCHANGED <<restarting, envVars, containerVars, sessionVars, probes, removed, exhausted,
                   emitted>>

(***************************************************************************)
(* Specifications.                                                         *)
(***************************************************************************)
\* the readings a page reports in the supervisor's specifications
SupTexts == { t \in Texts : ~t.num \/ t.val = 1 }

\* the supervisor: one client calling for one session, one call at a time,
\* while tabs close on their own, pages report readings and retryOpen loops run
Next ==
    \/ MainCall
    \/ StartLaunch(Main)
    \/ StartContext(Main)
    \/ AddCall(1, RawBtc)
    \/ Validate(1)
    \/ \E q \in Procs : OpenNewPage(q)
    \/ \E q \in Procs : OpenNav(q)
    \/ \E q \in Procs : OpenInvalidDone(q)
    \/ \E p \in PageIds : ExternalClose(p)
    \/ \E p \in PageIds : CloseHandler(p)
    \/ \E h \in Heals : HealRetry(h)
    \/ RemoveCall(1, RawBtcPadded)
    \/ RemoveFinish(1)
    \/ \E p \in PageIds : \E text \in SupTexts : ReportPrice(p, text, SupEvents)

Spec == Init /\ [][Next]_vars

\* concurrent calls for one session: AddTicker and RemoveTicker in every
\* interleaving of their steps; no tab closes on its own
NextRace ==
    \/ MainCall
    \/ StartLaunch(Main)
    \/ StartContext(Main)
    \/ \E c \in Slots : AddCall(c, RawBtc)
    \/ \E c \in Slots : Validate(c)
    \/ \E c \in Slots : OpenNewPage(c)
    \/ \E c \in Slots : OpenNav(c)
    \/ \E c \in Slots : OpenInvalidDone(c)
    \/ \E p \in PageIds : CloseHandler(p)
    \/ \E c \in Slots : RemoveCall(c, RawBtcPadded)
    \/ \E c \in Slots : RemoveFinish(c)

SpecRace == Init /\ [][NextRace]_vars

\* one client sending every request string, one call at a time
NextLexical ==
    \/ MainCall
    \/ StartLaunch(Main)
    \/ StartContext(Main)
    \/ \E raw \in RawInputs : AddCall(1, raw)
    \/ Validate(1)
    \/ OpenNewPage(1)
    \/ OpenNav(1)
    \/ OpenInvalidDone(1)
    \/ \E p \in PageIds : CloseHandler(p)
    \/ \E raw \in RawInputs : RemoveCall(1, raw)
    \/ RemoveFinish(1)

SpecLexical == Init /\ [][NextLexical]_vars

\* the subscriptions, over one session that reports prices
NextStream ==
    \/ MainCall
    \/ StartLaunch(Main)
    \/ StartContext(Main)
    \/ AddCall(1, RawBtc)
    \/ Validate(1)
    \/ OpenNewPage(1)
    \/ OpenNav(1)
    \/ OpenInvalidDone(1)
    \/ \E p \in PageIds : \E text \in Texts : ReportPrice(p, text, MaxEvents)
    \/ \E s \in SubIds : Subscribe(s)
    \/ \E s \in SubIds : Pull(s)
    \/ \E s \in SubIds : Resume(s)
    \/ \E s \in SubIds : Cancel(s)

SpecStream == Init /\ [][NextStream]_vars

\* the subscriptions of clients that keep pulling, over one session whose
\* page reports numbers: a generator suspended at a yield is resumed by the
\* transport's next(), and one whose notify promise was resolved goes on
NextBridge ==
    \/ MainCall
    \/ StartLaunch(Main)
    \/ StartContext(Main)
    \/ pages = EmptyMap /\ AddCall(1, RawBtc)
    \/ Validate(1)
    \/ OpenNewPage(1)
    \/ OpenNav(1)
    \/ OpenInvalidDone(1)
    \/ \E p \in PageIds : \E text \in Texts :
          ~isNaN(text) /\ ReportPrice(p, text, MaxEvents)
    \/ \E s \in SubIds : Subscribe(s)
    \/ \E s \in SubIds : Pull(s)
    \/ \E s \in SubIds : Resume(s)
    \/ \E s \in SubIds : Cancel(s)

SpecBridge ==
    /\ Init /\ [][NextBridge]_vars
    /\ \A s \in SubIds : WF_vars(Pull(s)) /\ WF_vars(Resume(s))

\* one session while the window or the whole browser goes away and the
\* container-level recovery handlers run; the tab-level close handlers and
\* retryOpen are explored by Spec
NextRecover ==
    \/ MainCall
    \/ StartLaunch(Main)
    \/ StartContext(Main)
    \/ AddCall(1, RawBtc)
    \/ Validate(1)
    \/ \E q \in Procs : OpenNewPage(q)
    \/ \E q \in Procs : OpenNav(q)
    \/ \E q \in Procs : OpenInvalidDone(q)
    \/ \E p \in PageIds : \E text \in Texts : ReportPrice(p, text, MaxEvents)
    \/ BrowserCrash
    \/ WindowClose
    \/ OnDisconnected
    \/ OnContextClose
    \/ \E q \in Recs : RecoverLaunch(q)
    \/ \E q \in Recs : RecoverContext(q)

SpecRecover == Init /\ [][NextRecover]_vars

\* the recovery of the container, with the scheduling of Node's event loop: a
\* delivered event's handler runs, and an awaited promise that has settled
\* resumes its caller.  Nothing is assumed of the environment: the browser
\* and the window need not fail, and the client need not call
NextRevive ==
    \/ MainCall
    \/ StartLaunch(Main)
    \/ StartContext(Main)
    \/ AddCall(1, RawBtc)
    \/ Validate(1)
    \/ \E q \in Procs : OpenNewPage(q)
    \/ \E q \in Procs : OpenNav(q)
    \/ \E q \in Procs : OpenInvalidDone(q)
    \/ BrowserCrash
    \/ WindowClose
    \/ OnDisconnected
    \/ OnContextClose
    \/ \E q \in Recs : RecoverLaunch(q)
    \/ \E q \in Recs : RecoverContext(q)

SpecRevive ==
    /\ Init /\ [][NextRevive]_vars
    /\ WF_vars(MainCall)
    /\ WF_vars(StartLaunch(Main))
    /\ WF_vars(StartContext(Main))
    /\ WF_vars(Validate(1))
    /\ WF_vars(\E q \in Procs : OpenNewPage(q))
    /\ WF_vars(\E q \in Procs : OpenNav(q))
    /\ WF_vars(\E q \in Procs : OpenInvalidDone(q))
    /\ WF_vars(OnDisconnected)
    /\ WF_vars(OnContextClose)
    /\ WF_vars(\E q \in Recs : RecoverLaunch(q))
    /\ WF_vars(\E q \in Recs : RecoverContext(q))

\* the event history is not followed where two symbols are tracked
FrameEvents == 0

\* page p is the handle of the tracked entry of its symbol
isHandle(p) == hasLivePage(tabs[p].sym) /\ st[pages[tabs[p].sym]].page = p

noCallInFlight == \A c \in Slots : Free(c)
noHealInFlight == freeHeals = Heals

\* two symbols, BTCUSDT and AUSDT.  The client calls while no retryOpen loop
\* runs: AddTicker for AUSDT, and AddTicker for BTCUSDT while another call is
\* in flight, and RemoveTicker for BTCUSDT.  Between calls the session pages
\* report numbers and the page of BTCUSDT may be closed from outside, which
\* starts the healing of BTCUSDT
NextFrame ==
    \/ MainCall
    \/ StartLaunch(Main)
    \/ StartContext(Main)
    \/ noHealInFlight /\ AddCall(1, RawA)
    \/ noHealInFlight /\ AddCall(2, RawBtc)
    \/ \E c \in Slots : Validate(c)
    \/ \E q \in Procs : OpenNewPage(q)
    \/ \E q \in Procs : OpenNav(q)
    \/ \E q \in Procs : OpenInvalidDone(q)
    \/ \E p \in PageIds :
          /\ noCallInFlight /\ isHandle(p) /\ tabs[p].sym = addKey[RawBtc]
          /\ ExternalClose(p)
    \/ \E p \in PageIds : CloseHandler(p)
    \/ \E h \in Heals : HealRetry(h)
    \/ noHealInFlight /\ RemoveCall(1, RawBtcPadded)
    \/ \E c \in Slots : RemoveFinish(c)
    \/ \E p \in PageIds : \E text \in SupTexts :
          /\ noCallInFlight /\ isHandle(p) /\ ~isNaN(text)
          /\ ReportPrice(p, text, FrameEvents)

SpecFrame == Init /\ [][NextFrame]_vars

noRecoveryInFlight == freeRecs = Recs

\* one session that fails as a whole: the client adds the symbol once, its
\* page reports numbers, and the window or the browser goes away while
\* nothing is being reopened; then the 'close' handlers of the pages with
\* their retryOpen loops and the container's recovery all run
NextReopen ==
    \/ MainCall
    \/ StartLaunch(Main)
    \/ StartContext(Main)
    \/ pages = EmptyMap /\ AddCall(1, RawBtc)
    \/ Validate(1)
    \/ \E q \in Procs : OpenNewPage(q)
    \/ \E q \in Procs : OpenNav(q)
    \/ \E q \in Procs : OpenInvalidDone(q)
    \/ \E p \in PageIds : \E text \in SupTexts :
          /\ isHandle(p) /\ ~isNaN(text)
          /\ ReportPrice(p, text, FrameEvents)
    \/ noHealInFlight /\ noRecoveryInFlight /\ BrowserCrash
    \/ noHealInFlight /\ noRecoveryInFlight /\ WindowClose
    \/ OnDisconnected
    \/ OnContextClose
    \/ \E q \in Recs : RecoverLaunch(q)
    \/ \E q \in Recs : RecoverContext(q)
    \/ \E p \in PageIds : CloseHandler(p)
    \/ \E h \in Heals : HealRetry(h)

SpecReopen == Init /\ [][NextReopen]_vars

\* one session, shutdown of the listening service, and the handlers that the
\* closing context and browser call, until the process exits.  shutdown()
\* closes the server before it calls stop(), so no call arrives after it;
\* the close handlers of the pages are explored by Spec
NextStop ==
    \/ ~exited /\ MainCall
    \/ ~exited /\ StartLaunch(Main)
    \/ ~exited /\ StartContext(Main)
    \/ proc[Stop].pc = "idle" /\ AddCall(1, RawBtc)
    \/ ~exited /\ Validate(1)
    \/ ~exited /\ \E q \in Procs : OpenNewPage(q)
    \/ ~exited /\ \E q \in Procs : OpenNav(q)
    \/ ~exited /\ \E q \in Procs : OpenInvalidDone(q)
    \/ ~exited /\ \E p \in PageIds : \E text \in SupTexts : ReportPrice(p, text, SupEvents)
    \/ ~exited /\ listening /\ StopCall
    \/ ~exited /\ StopPageClosed
    \/ ~exited /\ StopClosesContext
    \/ ~exited /\ StopContextClosed
    \/ ~exited /\ StopClosesBrowser
    \/ ~exited /\ StopBrowserClosed
    \/ ~exited /\ OnDisconnected
    \/ ~exited /\ OnContextClose
    \/ ~exited /\ \E q \in Recs : RecoverLaunch(q)
    \/ ~exited /\ \E q \in Recs : RecoverContext(q)

SpecStop == Init /\ [][NextStop]_vars

(***************************************************************************)
(* Properties.                                                             *)
(***************************************************************************)
\* the persistent pages open for a symbol
livePages(sym) == { p \in PageIds : tabs[p].open /\ tabs[p].sym = sym }

\* C1: an AddSource that arrives right after an AddSource for the same
\* normalized symbol reported success, the session's page being live, reports
\* success too, with no message, and starts no second session: the registry,
\* its entries and the pages stay as they are
C1_SecondAddSucceeds ==
    [][\A raw \in RawInputs :
          (/\ addJustSucceeded
           /\ addKey[raw] = addKey[reply.raw]
           /\ hasLivePage(addKey[raw])
           /\ AddCall(1, raw))
          => /\ reply' = [kind |-> "add", raw |-> raw, out |-> "returned",
                          success |-> TRUE, message |-> "", follows |-> FALSE]
             /\ UNCHANGED <<pages, st, tabs, probes>>]_vars

\* C2: in every reachable state at most one persistent page is open per symbol
C2_OneLivePagePerSymbol ==
    \A raw \in RawInputs : Cardinality(livePages(addKey[raw])) <= 1

\* the lexical shape (alphanumeric, 3 to 15 characters, optional USD or USDT
\* suffix) holds of the request string as the client sent it, trimmed
lexicalShapeOk == [raw \in RawInputs |-> BASIC_TICKER_RE(trim(raw))]

\* the positions in which a call waits for I/O: the browser launch, the new
\* context, the probe page, the persistent page and its navigation
awaitsIO(pc) ==
    pc \in {"launch", "newctx", "validating", "newpage", "opening", "oclose"}

\* C3: an addTicker whose input fails the lexical shape check is rejected
\* with no I/O: it never waits for a browser launch, a probe page or a
\* navigation
C3_LexicalRejectNoIO ==
    \A c \in Slots :
        (proc[c].kind = "add" /\ ~lexicalShapeOk[proc[c].raw])
        => ~awaitsIO(proc[c].pc)

\* a step of addTicker call c before the validator's verdict
stepBeforeVerdict(c) ==
    \/ \E raw \in RawInputs : AddCall(c, raw)
    \/ proc[c].kind = "add" /\ (StartLaunch(c) \/ StartContext(c))

\* the step in which the validator rejects in call c
validatorRejects(c) ==
    /\ Validate(c)
    /\ reply'.kind = "add"
    /\ reply'.out = "returned"
    /\ ~reply'.success

\* the registry keeps its keys, and every entry its PageState as it was
trackingUnchanged ==
    /\ pages' = pages
    /\ \A sym \in DOMAIN pages : st'[pages[sym]] = st[pages[sym]]

\* C4: no step of an addTicker that the validator rejects changes the
\* tracking map or opens a persistent page, the rejection closes the call's
\* probe page, and every open probe page belongs to a call still validating
C4_ValidatorRejectLeavesNothing ==
    [][/\ \A c \in Slots :
             (stepBeforeVerdict(c) \/ validatorRejects(c))
             => /\ trackingUnchanged
                /\ \A p \in PageIds : tabs'[p].open => tabs[p].open
       /\ \A c \in Slots :
             validatorRejects(c)
             => /\ probes' = probes - 1
                /\ reply'.message = "Invalid ticker"
                /\ proc'[c] = NoProc
       /\ probes' = Cardinality({ c \in Slots : proc'[c].pc = "validating" })]_vars

\* a validator rejection that left a tracked session as it was
C4_Witness ==
    /\ reply.kind = "add"
    /\ reply.message = "Invalid ticker"
    /\ probes = 0
    /\ addKey[reply.raw] \in DOMAIN pages
    /\ Cardinality(livePages(addKey[reply.raw])) = 1

\* C5: once removeTicker has run for a symbol (and no addTicker since), a
\* 'close' event of one of its pages starts no retryOpen, no new page is
\* opened for it, and it does not come back into the tracking map; a
\* retryOpen loop under way when removeTicker ran is no exception
C5_RemovedStaysRemoved ==
    [][/\ \A p \in PageIds :
             (CloseHandler(p) /\ tabs[p].sym \in removed)
             => \A h \in Heals : proc'[h] = proc[h]
       /\ \A p \in PageIds :
             (tabs[p] = NoTab /\ tabs'[p] # NoTab) => tabs'[p].sym \notin removed'
       /\ \A sym \in removed' :
             sym \in DOMAIN pages' => sym \in DOMAIN pages]_vars

\* C6: every RemoveSource settles with success, never by throwing, and with
\* its key out of the registry, also when page.close() rejected; removing an
\* untracked symbol (a second remove among them) changes nothing
C6_RemoveAlwaysSucceeds ==
    [][/\ reply'.kind = "remove"
          => /\ reply'.out = "returned"
             /\ reply'.success
             /\ plainKey[reply'.raw] \notin DOMAIN pages'
       /\ \A c \in Slots : \A raw \in RawInputs :
             (RemoveCall(c, raw) /\ plainKey[raw] \notin DOMAIN pages)
             => /\ reply'.kind = "remove"
                /\ UNCHANGED <<containerVars, pages, st, tabs, probes, proc>>]_vars

\* a RemoveSource has just settled after closing the session's page, whose
\* 'close' event is still to come
C6_Witness ==
    /\ reply.kind = "remove"
    /\ reply.success
    /\ pages = EmptyMap
    /\ \E p \in PageIds :
          /\ ~tabs[p].open
          /\ tabs[p].sig = "pending"
          /\ plainKey[reply.raw] = tabs[p].sym

\* the page registered for a symbol's session, 0 when there is none
sessionPage(sym) == IF sym \in DOMAIN pages THEN st[pages[sym]].page ELSE 0

\* C7: once AddSource(x) has reported success and x's normalized symbol is
\* tracked, hasTicker(x) reports it; a RemoveSource(x) arriving right then
\* closes the session's page, and its response leaves the symbol untracked
C7_NormalizedKeyEverywhere ==
    [][/\ (addJustSucceeded /\ addKey[reply.raw] \in DOMAIN pages)'
           => hasTicker(reply.raw)'
       /\ \A raw \in RawInputs :
             (/\ addJustSucceeded
              /\ reply.raw = raw
              /\ sessionPage(addKey[raw]) # 0
              /\ RemoveCall(1, raw))
             => ~tabs'[sessionPage(addKey[raw])].open
       /\ (reply.kind = "remove" /\ reply.follows)'
           => addKey[reply'.raw] \notin DOMAIN pages']_vars

\* the listener of the subscription is registered
registered(x) == x.pc \in {"awaitNotify", "woken", "suspendedYield"}

\* the updates of the events emitted after the first n
updatesSince(n) ==
    [i \in 1..(Len(emitted) - n) |-> toTickerUpdate(emitted[n + i])]

isPrefix(a, b) == Len(a) <= Len(b) /\ a = SubSeq(b, 1, Len(a))

\* C8: what a subscription was delivered, followed by what waits in its
\* queue, is exactly the events emitted since its listener was registered,
\* in emission order; before registration it holds nothing, and a finished
\* one was delivered a prefix of them
C8_EveryEventInOrder ==
    \A s \in SubIds :
        IF registered(sub[s])
        THEN sub[s].delivered \o sub[s].queue = updatesSince(sub[s].regAt)
        ELSE /\ sub[s].queue = <<>>
             /\ isPrefix(sub[s].delivered, updatesSince(sub[s].regAt))
             /\ sub[s].pc # "done" => sub[s].delivered = <<>>

\* one subscription from the start was delivered both events, another that
\* registered after the first was delivered the second only
C8_Witness ==
    \E s \in SubIds : \E t \in SubIds :
        /\ sub[s].regAt = 0
        /\ Len(sub[s].delivered) = 2
        /\ sub[t].regAt = 1
        /\ Len(sub[t].delivered) = 1
        /\ sub[t].delivered[1] = sub[s].delivered[2]

\* C9: a page's report is enabled whatever the queues hold, and the step
\* that emits an event appends it to the queue of every registered listener
C9_SlowSubscriberNeverBlocks ==
    [][/\ \A p \in PageIds : \A text \in Texts :
             (tabs[p].open /\ Len(emitted) < MaxEvents)
             => ENABLED ReportPrice(p, text, MaxEvents)
       /\ Len(emitted') > Len(emitted)
          => \A s \in Range(listeners) :
                sub'[s].queue =
                    Append(sub[s].queue, toTickerUpdate(emitted'[Len(emitted')]))]_vars

\* one subscription never pulled and holds both events in its queue while
\* another was delivered both
C9_Witness ==
    \E s \in SubIds : \E t \in SubIds :
        /\ sub[s].delivered = <<>>
        /\ Len(sub[s].queue) = 2
        /\ Len(sub[t].delivered) = 2

\* C10: once a subscription is cancelled its generator is finished and its
\* listener is off the emitter (so nothing is enqueued for it any more)
C10_CancelEndsAtOnce ==
    \A s \in SubIds :
        sub[s].cancelled => (sub[s].pc = "done" /\ s \notin Range(listeners))

\* the step in which subscription s is cancelled, or in which its queued
\* cancellation takes effect
cancelStep(s) == Cancel(s) \/ (sub[s].cancelReq /\ Resume(s))

\* C11: a step that cancels one subscription leaves every other
\* subscription (its queue, its position, what it was delivered) and its
\* listener as they were, in the same order, and changes no session state,
\* no page and no entry of the tracking map
C11_CancelTouchesNothingElse ==
    [][\A s \in SubIds :
          cancelStep(s)
          => /\ \A t \in SubIds \ {s} : sub'[t] = sub[t]
             /\ SelectSeq(listeners', LAMBDA y : y # s)
                   = SelectSeq(listeners, LAMBDA y : y # s)
             /\ UNCHANGED <<pages, st, tabs, containerVars, probes, proc>>]_vars

\* one subscription was cancelled and is finished while another, registered,
\* still holds an update in its queue and a session is tracked
C11_Witness ==
    \E s \in SubIds : \E t \in SubIds \ {s} :
        /\ sub[s].cancelled
        /\ sub[s].pc = "done"
        /\ t \in Range(listeners)
        /\ sub[t].queue # <<>>
        /\ pages # EmptyMap

lastEmitted == emitted[Len(emitted)]

\* C13: a new entry of the tracking map has no last reading; the event of a
\* session's first numeric reading carries change 0 and percent change 0,
\* the event of every later reading carries the reading minus the session's
\* previous one, and the reading becomes the session's last
C13_DeltaAgainstOwnLastReading ==
    [][/\ \A sym \in DOMAIN pages' \ DOMAIN pages :
             st'[pages'[sym]].lastPrice = Undefined
       /\ Len(emitted') > Len(emitted)
          => LET e == lastEmitted'
                 last == st[pages[e.symbol]].lastPrice
             IN  /\ last = Undefined => (e.change = 0 /\ e.changePercent = 0)
                 /\ last # Undefined => e.change = e.price - last
                 /\ st'[pages[e.symbol]].lastPrice = e.price]_vars

\* a first reading of 0 with no change, then a reading of 1 with change 1
C13_Witness ==
    /\ Len(emitted) = 2
    /\ emitted[1].price = 0 /\ emitted[1].change = 0 /\ emitted[1].changePercent = 0
    /\ emitted[2].price = 1 /\ emitted[2].change = 1
    /\ emitted[2].symbol = emitted[1].symbol

\* retryOpen's call record h begins an attempt: it issues context.newPage()
attemptStarts(h) ==
    /\ proc'[h].kind = "heal"
    /\ proc'[h].pc = "newpage"
    /\ proc[h].pc # "newpage"

\* C15: every reopen attempt of the supervisor, the first included, follows
\* a wait, and the wait before attempt number k (from 0) is entry k of the
\* schedule 500, 1000, 2000, 4000
C15_AttemptFollowsItsDelay ==
    [][\A h \in Heals :
          attemptStarts(h)
          => /\ proc[h].pc = "backoff"
             /\ waited(proc[h]) = delays[proc'[h].i + 1]]_vars

\* C16: the close handler of a page starts healing (clears the handle,
\* starts retryOpen) only if the symbol is tracked, not intentionally
\* closed and validated; otherwise it leaves the tracking map, every session
\* state, every call in progress, the container and the guard as they were
\* and no page is opened
C16_CloseHandlerHealsOnlyValidated ==
    [][\A p \in PageIds :
          CloseHandler(p)
          => LET sym == tabs[p].sym
                 heals == /\ sym \in DOMAIN pages
                          /\ ~st[pages[sym]].intentionalClose
                          /\ st[pages[sym]].validated
             IN  /\ (\E h \in Heals : proc'[h] # proc[h]) => heals
                 /\ ~heals
                    => /\ UNCHANGED <<pages, st, proc, containerVars, restarting, probes>>
                       /\ \A x \in PageIds : tabs'[x].open = tabs[x].open]_vars

\* the close handler of a validated session's page has cleared the handle
\* and retryOpen is in its first attempt
C16_Witness ==
    \E h \in Heals :
        /\ proc[h].kind = "heal"
        /\ proc[h].pc = "newpage"
        /\ proc[h].i = 0
        /\ proc[h].sym \in DOMAIN pages
        /\ st[pages[proc[h].sym]].validated
        /\ ~st[pages[proc[h].sym]].intentionalClose
        /\ st[pages[proc[h].sym]].page = 0

\* a step of the tab-level healing: the close handler, retryOpen and the
\* openTabForSymbol it awaits
healStep ==
    \/ \E p \in PageIds : CloseHandler(p)
    \/ \E h \in Heals : HealRetry(h) \/ OpenNewPage(h) \/ OpenNav(h) \/ OpenInvalidDone(h)

\* a step of a container-level failure and its recovery
recoveryStep ==
    \/ BrowserCrash
    \/ WindowClose
    \/ OnDisconnected
    \/ OnContextClose
    \/ \E q \in Recs : \/ RecoverLaunch(q) \/ RecoverContext(q)
                       \/ OpenNewPage(q) \/ OpenNav(q) \/ OpenInvalidDone(q)

autoReopens(sym) ==
    \E q \in Heals \cup Recs :
        /\ proc'[q].pc = "newpage"
        /\ proc'[q].sym = sym
        /\ proc[q].pc # "newpage"

\* C17: a symbol whose healing schedule ran out, and for which no addTicker
\* or removeTicker was called since, stays tracked with a null handle, and
\* neither a close handler nor a container-level recovery opens a page for
\* it
C17_AbandonedStaysAbandoned ==
    [][\A sym \in exhausted :
          /\ ~autoReopens(sym)
          /\ sym \in exhausted'
             => sym \in DOMAIN pages' /\ st'[pages'[sym]].page = 0]_vars

\* the restore loop of a container-level recovery, call record q, issues
\* context.newPage() for a symbol
restoreReopens(q) ==
    /\ proc'[q].kind \in RecoveryKinds
    /\ proc'[q].pc = "newpage"
    /\ proc[q].pc # "newpage"

\* C18: a container-level recovery reopens a symbol only if it is tracked,
\* not intentionally closed and validated
C18_RestoreOnlyValidated ==
    [][\A q \in Recs :
          restoreReopens(q)
          => LET sym == proc'[q].sym
             IN  /\ sym \in DOMAIN pages
                 /\ ~st[pages[sym]].intentionalClose
                 /\ st[pages[sym]].validated]_vars

\* the container-level recoveries in progress
recovering == { q \in Recs : proc[q].pc # "idle" }

\* C19: at most one container-level recovery is in progress; the guard is
\* set exactly while one is; and the handler of a failure signal that is
\* delivered while one is in progress launches nothing, creates nothing and
\* leaves every session, every call in progress and the guard as they were
C19_OneRecoveryAtATime ==
    [][/\ Cardinality(recovering') <= 1
       /\ restarting' = (recovering' # {})
       /\ ((OnDisconnected \/ OnContextClose) /\ recovering # {})
          => UNCHANGED <<pages, st, tabs, proc, containerVars, alive, restarting>>]_vars

\* a recovery created a context and is restoring a page; that context has
\* closed since, and the signal of it was delivered and ignored
C19_Witness ==
    \E q \in Recs :
        /\ proc[q].pc \in {"newpage", "opening"}
        /\ restarting
        /\ ~alive.context
        /\ signals = NoSignals

stopReturns ==
    /\ proc[Stop].pc # "exited"
    /\ proc'[Stop].pc = "exited"

\* C20: when stop() returns, no entry is tracked and the fields context and
\* browser are null
C20_StopLeavesNothing ==
    [][stopReturns => pages' = EmptyMap /\ ~context' /\ ~browser']_vars

\* C21: whatever the verdict of validateTickerFast (accept, reject, or the
\* navigation error of a probe whose window went away), the step in which it
\* returns closes the call's probe page, and the open probe pages are
\* exactly those of the calls still inside validateTickerFast
C21_ProbeClosedOnEveryPath ==
    [][/\ \A c \in Slots : Validate(c) => probes' = probes - 1
       /\ probes' = Cardinality({ c \in Slots : proc'[c].pc = "validating" })]_vars

\* the validator accepted, its probe page is closed, and the call is
\* creating the persistent page
C21_Witness ==
    \E c \in Slots :
        /\ proc[c].kind = "add"
        /\ proc[c].pc = "newpage"
        /\ proc[c].ok
        /\ probes = 0

\* C22: no AddTicker call ends with an exception; every one ends with a
\* returned result
C22_AddNeverThrows ==
    reply.kind = "add" => reply.out = "returned"

\* C23: a validation whose probe page, once navigated, shows an invalid marker
\* at once or within the invalid-marker wait ends with the rejection
\* "Invalid ticker" and tracks nothing new, whether or not the probe also
\* shows a price marker, would show one later, or carries a structured-data
\* price
C23_InvalidMarkerWins ==
    [][\A c \in Slots : \A shown \in ProbeContents :
          (/\ proc[c].pc = "validating"
           /\ shown.navOk
           /\ shown.invalidNow \/ shown.invalidSoon
           /\ ValidateWith(c, shown))
          => /\ reply'.kind = "add"
             /\ reply'.out = "returned"
             /\ ~reply'.success
             /\ reply'.message = "Invalid ticker"
             /\ UNCHANGED <<pages, tabs>>]_vars

\* a validation is about to settle on a probe that shows an invalid marker
\* late and a price marker at once
C23_Witness ==
    \E c \in Slots : \E shown \in ProbeContents :
        /\ shown.navOk /\ ~shown.invalidNow /\ shown.invalidSoon
        /\ shown.priceNow /\ shown.jsonLd
        /\ ENABLED ValidateWith(c, shown)

\* C24: an AddTicker RPC for a symbol whose session is tracked, in whatever
\* case or suffix form the request names it, is answered "Ticker already being
\* tracked" with success = false, and it starts no validation and opens no
\* page
C24_DuplicateRejectedUpFront ==
    [][\A raw \in RawInputs :
          (addKey[raw] \in DOMAIN pages /\ AddCall(1, raw))
          => /\ reply'.kind = "add"
             /\ reply'.out = "returned"
             /\ ~reply'.success
             /\ reply'.message = "Ticker already being tracked"
             /\ UNCHANGED <<pages, st, tabs, probes>>]_vars

\* C25: every open persistent page is the handle of a tracked entry, or is
\* the page a call still inside openTabForSymbol has created and not yet
\* stored: an openTabForSymbol that failed after creating its page has
\* closed it
C25_NoPageLeftBehind ==
    \A p \in PageIds :
        tabs[p].open
        => \/ \E sym \in DOMAIN pages : st[pages[sym]].page = p
           \/ \E q \in Procs : proc[q].pc = "opening" /\ proc[q].page = p

\* C26: a session's validated flag becomes true only in a step in which a
\* numeric reading is reported for that session; an Add whose validation
\* accepts leaves the symbol's entry with validated = false and
\* intentionalClose = false; and a non-numeric reading changes no entry and
\* emits no event
C26_ValidatedNeedsNumericReading ==
    [][/\ \A s \in StateIds :
            (~st[s].validated /\ st'[s].validated)
            => \E p \in PageIds : \E text \in Texts :
                  /\ ~isNaN(text)
                  /\ tabs[p].open
                  /\ tabs[p].sym \in DOMAIN pages
                  /\ pages[tabs[p].sym] = s
                  /\ st'[s].lastPrice = text.val
       /\ \A c \in Slots :
            (ValidateSettle(c, TRUE) /\ proc[c].sym \in DOMAIN pages')
            => /\ ~st'[pages'[proc[c].sym]].validated
               /\ ~st'[pages'[proc[c].sym]].intentionalClose
       /\ \A p \in PageIds : \A text \in Texts \cup SupTexts :
            (isNaN(text) /\ ReportPrice(p, text, SupEvents))
            => UNCHANGED <<st, emitted, sub>>]_vars

\* C27: when the post-navigation check of openTabForSymbol finds an invalid
\* marker, the step flags the entry as intentionally closed and closes the
\* page; while the call waits for page.close() and the 'close' signal of that
\* page is still to be delivered, its handler would start no healing; and
\* the step after page.close() deletes the entry, with which an addTicker
\* call reports success although the symbol is no longer tracked
C27_InvalidAfterNavigation ==
    [][/\ \A q \in Procs :
            (proc[q].pc = "opening" /\ proc'[q].pc = "oclose")
            => /\ st'[proc[q].sid].intentionalClose
               /\ ~tabs'[proc[q].page].open
               /\ tabs'[proc[q].page].sig = "pending"
       /\ \A q \in Procs :
            (proc[q].pc = "oclose" /\ tabs[proc[q].page].sig = "pending")
            => ~closeHandlerHeals(proc[q].sym)
       /\ \A q \in Procs :
            OpenInvalidDone(q)
            => /\ proc[q].sym \notin DOMAIN pages'
               /\ proc[q].kind = "add"
                  => /\ reply'.kind = "add"
                     /\ reply'.out = "returned"
                     /\ reply'.success
                     /\ reply'.message = ""]_vars

\* C28: an AddTicker RPC for a symbol that is tracked with no page (a null
\* handle) is not answered at once: it goes into validation, and when the
\* validation accepts, the entry is reset and the call goes on to open a new
\* persistent page
C28_AddReopensTrackedWithoutPage ==
    [][/\ \A raw \in RawInputs :
            (/\ basicFormatOk[raw]
             /\ addKey[raw] \in DOMAIN pages
             /\ st[pages[addKey[raw]]].page = 0
             /\ AddCall(1, raw))
            => reply'.out # "returned"
       /\ \A c \in Slots :
            (/\ proc[c].ex # 0
             /\ proc[c].sym \in DOMAIN pages
             /\ pages[proc[c].sym] = proc[c].ex
             /\ ValidateSettle(c, TRUE))
            => /\ ~st'[proc[c].ex].validated
               /\ ~st'[proc[c].ex].intentionalClose
               /\ proc'[c].pc = "newpage"]_vars

\* the service is up and its browser or its window is gone
containerDown == listening /\ (~alive.browser \/ ~alive.context)

\* this.browser and this.context are live objects
containerUp == browser /\ context /\ alive.browser /\ alive.context

\* C29: whenever the browser or the window of the running service is gone,
\* also when a failure signal was ignored by a running recovery or a
\* relaunch failed, recoveries go on until the service has a live browser
\* and a live window again
C29_ContainerEventuallyRecovered ==
    containerDown ~> containerUp

\* the symbols of the two-symbol specification
FrameSymbols == { addKey[RawBtc], addKey[RawA] }

\* the session of symbol sym: its tracked entry (handle, last value, flags),
\* if any, and its open pages
sessionOf(sym) ==
    [entry |-> IF sym \in DOMAIN pages THEN {st[pages[sym]]} ELSE {},
     open |-> { p \in PageIds : tabs[p].open /\ tabs[p].sym = sym }]

\* the step leaves the session of every symbol but sym as it is
othersUnchanged(sym) ==
    \A t \in FrameSymbols \ {sym} : sessionOf(t)' = sessionOf(t)

\* the steps call c can take next
callGoesOn(c) ==
    \/ Validate(c)
    \/ OpenNewPage(c)
    \/ OpenNav(c)
    \/ OpenInvalidDone(c)
    \/ RemoveFinish(c)

C31_StopStartsNoRecovery ==
    [][proc[Stop].pc # "idle"
       => /\ \A q \in Recs : proc[q].pc = "idle" => proc'[q].pc = "idle"
          /\ alive'.context => alive.context
          /\ alive'.browser => alive.browser]_vars

\* the calls that reopen pages: retryOpen loops and restore loops
Reopeners == Heals \cup Recs

insideOpenTab(q) == proc[q].pc \in {"newpage", "opening"}

\* C32: a retryOpen loop and a restore loop are never both inside
\* openTabForSymbol for one symbol, and neither has created a page for a
\* symbol whose entry already has a live handle: a failure of the container
\* reopens each symbol once
C32_ReopenedOnce ==
    /\ \A h \in Heals : \A q \in Recs :
          ~(insideOpenTab(h) /\ insideOpenTab(q) /\ proc[h].sym = proc[q].sym)
    /\ \A q \in Reopeners :
          proc[q].pc = "opening" => ~hasLivePage(proc[q].sym)

stalePage(p) ==
    /\ tabs[p].sym \in DOMAIN pages
    /\ st[pages[tabs[p].sym]].page # p
    /\ \A q \in DOMAIN proc : ~(proc[q].pc = "opening" /\ proc[q].page = p)

\* C33: the 'close' signal of a page that is not the handle of its symbol's
\* entry leaves that entry's handle as it is and starts no retryOpen loop
C33_StaleCloseIgnored ==
    [][\A p \in PageIds :
          (/\ tabs[p].sig = "pending"
           /\ stalePage(p)
           /\ CloseHandler(p))
          => /\ tabs[p].sym \in DOMAIN pages'
             /\ st'[pages'[tabs[p].sym]].page = st[pages[tabs[p].sym]].page
             /\ \A h \in Heals : proc[h].pc = "idle" => proc'[h].pc = "idle"]_vars

\* C34: when removeTicker has run for a symbol while a retryOpen loop (or an
\* addTicker) for it was suspended in openTabForSymbol, the page of that call
\* is not open once the call has left openTabForSymbol, and the symbol is
\* not tracked
C34_RemoveLeavesNoPage ==
    [][\A q \in Slots \cup Heals :
          (/\ proc[q].pc = "opening"
           /\ proc[q].sym \in removed \/ proc[q].sym \notin DOMAIN pages
           /\ proc'[q].pc # "opening")
          => /\ ~tabs'[proc[q].page].open
             /\ proc[q].sym \notin DOMAIN pages']_vars

\* call q is inside start(), at one of its two awaits (lines 120, 121)
insideStart(q) ==
    proc[q].pc \in {"launch", "newctx"} /\ proc[q].kind \notin RecoveryKinds

\* C35: at most one call is launching inside start() at a time; whenever no
\* call is inside start() the starting flag is false, whether start()
\* returned or threw; and no addTicker is answered "Browser not started"
\* while a start is in progress
C35_StartOnceFlagCleared ==
    /\ Cardinality({q \in Procs : insideStart(q)}) <= 1
    /\ (\A q \in Procs : ~insideStart(q)) => ~starting
    /\ (reply.kind = "add" /\ reply.message = "Browser not started")
          => \A q \in Procs : ~insideStart(q)

\* the message of event i is in the queue of subscription s
queued(s, i) ==
    \E k \in 1..Len(sub[s].queue) : sub[s].queue[k].ticker.id = i

\* the generator of subscription s has yielded the message of event i
yielded(s, i) ==
    \E k \in 1..Len(sub[s].delivered) : sub[s].delivered[k].ticker.id = i

\* C36: a generator that waits on its notify promise has an empty queue and
\* its resolver registered, and every message pushed onto the queue of a
\* subscription is eventually yielded, or the client has cancelled
C36_NoLostWakeup ==
    /\ [](\A s \in SubIds :
            sub[s].pc = "awaitNotify" => sub[s].queue = <<>> /\ sub[s].notify)
    /\ \A s \in SubIds : \A i \in 1..MaxEvents :
          queued(s, i) ~> (yielded(s, i) \/ sub[s].cancelled)

\* an event arrived while the generator waited on its notify promise, after
\* an earlier one that was pushed and yielded
C36_Witness ==
    \E s \in SubIds :
        /\ sub[s].pc = "woken"
        /\ ~sub[s].cancelled
        /\ Len(sub[s].queue) > 0
        /\ Len(sub[s].delivered) > 0

====
